---- MODULE Spec2Model ----
(***************************************************************************)
(* The day-8 virtual machine (src/day-8/src/vickz84259.rs): the CPU, its   *)
(* run loop and the repair search of part_2, as main drives them.          *)
(*                                                                         *)
(* A line of the program, "jmp +4", is held as the two tokens that         *)
(* get_instruction splits it into: [op |-> "jmp", arg |-> [sign |-> "+",   *)
(* val |-> 4]].                                                            *)
(*                                                                         *)
(* usize.  accumulator and ip are 64-bit unsigned.  A usize u is held as   *)
(* the integer r with u = r (mod 2^64) and -2^63 <= r < 2^63: r >= 0 is    *)
(* the value r, r < 0 is the wrapped value 2^64 + r (-1 is 2^64 - 1).      *)
(* Operands are small, so every value met is within a few units of 0 or    *)
(* of 2^64 and the residue never leaves that range.  With overflow checks  *)
(* (a debug build) an overflowing += or -= panics; without them (a release *)
(* build) it wraps.                                                        *)
(***************************************************************************)
EXTENDS Integers, Sequences, FiniteSets, TLC

\* Bounds of the programs drawn in Init.
MaxLen == 2
MaxVal == 3

\* Bound of the day-7 rules drawn in InitBags: the bags besides shiny gold.
MaxBags == 2

VARIABLES
    overflow_checks,  \* the build: TRUE debug (overflow panics), FALSE release (wraps)
    instructions,     \* CPU.instructions
    accumulator,      \* CPU.accumulator
    ip,               \* CPU.ip
    history,          \* CPU.history
    pc,               \* position of main
    result,           \* the CPUResult the latest run returned
    stdout,           \* what part_1 and part_2 printed
    clone,            \* part_2: let history = cpu.history.clone()
    idx,              \* part_2: position of the for loop in clone
    trials,           \* part_2: trial runs started so far
    original,         \* the program as get_cpu loaded it
    first,            \* rerun test: what the first run returned
    swapped,          \* swap test: the addresses swap_instruction was called on
    bags,             \* day 7: the Bags map of get_bags
    cache,            \* day 7: part_1's Cache
    asked,            \* day 7: the entries part_1's filter has been through
    count             \* day 7: the entries the filter kept

\* The state of the day-7 program.
day7 == <<bags, cache, asked, count>>

\* The state of the day-8 program.
day8 == <<overflow_checks, instructions, accumulator, ip, history, pc, result,
          stdout, clone, idx, trials, original>>

vars == <<day8, first, swapped, day7>>

Mnemonics == {"acc", "jmp", "nop"}
Signs == {"+", "-"}
Lines == [op : Mnemonics, arg : [sign : Signs, val : 0..MaxVal]]

Ins(op, sign, val) == [op |-> op, arg |-> [sign |-> sign, val |-> val]]

\* The program of the end-to-end example.
Example ==
    << Ins("nop", "+", 0), Ins("acc", "+", 1), Ins("jmp", "+", 4),
       Ins("acc", "+", 3), Ins("jmp", "-", 3), Ins("acc", "-", 99),
       Ins("acc", "+", 1), Ins("jmp", "-", 4), Ins("acc", "+", 6) >>

Programs == UNION {[1..n -> Lines] : n \in 0..MaxLen} \cup {Example}

InfiniteLoop == "InfiniteLoop"
Terminate == "Terminate"

Add(value) == [tag |-> "Add", value |-> value]
Sub(value) == [tag |-> "Sub", value |-> value]

\* from_str with the sign dropped: every operand is an Add.
from_str_unsigned(s) ==
    IF s.val \notin Nat THEN [tag |-> "Err"] ELSE Add(s.val)

\* impl FromStr for Operation
from_str(s) ==
    IF s.val \notin Nat THEN [tag |-> "Err"]
    ELSE IF s.sign = "+" THEN Add(s.val)
    ELSE IF s.sign = "-" THEN Sub(s.val)
    ELSE [tag |-> "Err"]

\* usize += v and usize -= v on residues: the result, and whether it overflowed.
usize_add(r, v) == [value |-> r + v, overflow |-> r < 0 /\ r + v >= 0]
usize_sub(r, v) == [value |-> r - v, overflow |-> r >= 0 /\ r - v < 0]

\* usize >= a length
usize_ge(r, n) == r < 0 \/ r >= n

\* contains that misses the first entry.
contains_from_second(s, x) == \E i \in 2..Len(s) : s[i] = x

\* Vec::contains
contains(s, x) == \E i \in 1..Len(s) : s[i] = x

Panic(self) == [self EXCEPT !.panicked = TRUE]

\* x op= v under the build's overflow behaviour
Assign(self, field, res) ==
    IF res.overflow /\ overflow_checks THEN Panic(self)
    ELSE [self EXCEPT ![field] = res.value]

\* CPU::new
new == [accumulator |-> 0, ip |-> 0, instructions |-> <<>>, history |-> <<>>,
        panicked |-> FALSE]

\* nop that adds its operand to the accumulator before it moves on.
nop_adds(self) ==
    Assign([self EXCEPT !.accumulator = @ + self.instructions[self.ip + 1].arg.val],
           "ip", usize_add(self.ip, 1))

\* CPU::nop
nop(self) == Assign(self, "ip", usize_add(self.ip, 1))

\* CPU::acc
acc(self, operation) ==
    LET done == IF operation.tag = "Add"
                THEN Assign(self, "accumulator", usize_add(self.accumulator, operation.value))
                ELSE Assign(self, "accumulator", usize_sub(self.accumulator, operation.value))
    IN  IF done.panicked THEN done ELSE Assign(done, "ip", usize_add(done.ip, 1))

\* CPU::jmp
jmp(self, operation) ==
    IF operation.tag = "Add"
    THEN Assign(self, "ip", usize_add(self.ip, operation.value))
    ELSE Assign(self, "ip", usize_sub(self.ip, operation.value))

\* CPU::get_instruction (addresses are 0-based, sequences 1-based)
get_instruction(self, address) == self.instructions[address + 1]

\* swap_instruction that loses the operand.
swap_instruction_drops_arg(self, address) ==
    LET old == self.instructions[address + 1]
        zero == [sign |-> "+", val |-> 0]
    IN  IF old.op = "nop"
        THEN [self EXCEPT !.instructions[address + 1] = [op |-> "jmp", arg |-> zero]]
        ELSE IF old.op = "jmp"
        THEN [self EXCEPT !.instructions[address + 1] = [op |-> "nop", arg |-> zero]]
        ELSE self

\* swap_instruction with the ("jmp", arg) arm missing.
swap_instruction_one_way(self, address) ==
    LET old == self.instructions[address + 1]
    IN  IF old.op = "nop"
        THEN [self EXCEPT !.instructions[address + 1] = [op |-> "jmp", arg |-> old.arg]]
        ELSE self

\* CPU::swap_instruction
swap_instruction(self, address) ==
    LET old == get_instruction(self, address)
    IN  IF old.op = "nop"
        THEN [self EXCEPT !.instructions[address + 1] = [op |-> "jmp", arg |-> old.arg]]
        ELSE IF old.op = "jmp"
        THEN [self EXCEPT !.instructions[address + 1] = [op |-> "nop", arg |-> old.arg]]
        ELSE self

\* CPU::step
step(self) ==
    LET pushed == [self EXCEPT !.history = Append(@, self.ip)]
        line == get_instruction(pushed, pushed.ip)
        operation == from_str(line.arg)
    IN  IF operation.tag = "Err" THEN Panic(pushed)
        ELSE IF line.op = "acc" THEN acc(pushed, operation)
        ELSE IF line.op = "jmp" THEN jmp(pushed, operation)
        ELSE IF line.op = "nop" THEN nop(pushed)
        ELSE Panic(pushed)

\* run without the test of the history.
run_check_no_history(self) ==
    IF self.ip < 0 \/ self.ip >= Len(self.instructions) THEN Terminate ELSE "Continue"

\* The two tests at the head of run's loop: the outcome run returns now, or
\* "Continue" when it steps.
run_check(self) ==
    IF contains(self.history, self.ip) THEN InfiniteLoop
    ELSE IF usize_ge(self.ip, Len(self.instructions)) THEN Terminate
    ELSE "Continue"

\* reset that leaves the history.
reset_keeps_history(self) == [self EXCEPT !.ip = 0, !.accumulator = 0]

\* reset that leaves the accumulator.
reset_keeps_accumulator(self) == [self EXCEPT !.ip = 0, !.history = <<>>]

\* CPU::reset
reset(self) == [self EXCEPT !.ip = 0, !.accumulator = 0, !.history = <<>>]

\* CPU::run as a function of the machine: the machine it leaves and the
\* outcome ("Panic" when a step panicked).
RECURSIVE run(_)
run(self) ==
    LET now == run_check(self)
    IN  IF now # "Continue" THEN [cpu |-> self, result |-> now]
        ELSE LET next == step(self)
             IN  IF next.panicked THEN [cpu |-> next, result |-> "Panic"]
                 ELSE run(next)

\* The machine in the current state.
CPU == [accumulator |-> accumulator, ip |-> ip, instructions |-> instructions,
        history |-> history, panicked |-> FALSE]

\* The machine becomes self.
Becomes(self) ==
    /\ accumulator' = self.accumulator
    /\ ip' = self.ip
    /\ instructions' = self.instructions
    /\ history' = self.history

RunPcs == {"part_1_run", "part_2_run", "trial_run", "test_run1", "test_run2"}

\* Where run returns to.
Return(p) ==
    CASE p = "part_1_run" -> "part_1_match"
      [] p = "part_2_run" -> "part_2_match"
      [] p = "trial_run"  -> "trial_match"
      [] p = "test_run1"  -> "test_match1"
      [] p = "test_run2"  -> "test_match2"

\* The day-7 program is not running.
NoDay7 ==
    /\ bags = <<>>
    /\ cache = <<>>
    /\ asked = {}
    /\ count = 0

\* get_cpu on one of the given programs, then main's first call
LoadFrom(programs, start) ==
    /\ overflow_checks \in BOOLEAN
    /\ original \in programs
    /\ instructions = original
    /\ accumulator = new.accumulator
    /\ ip = new.ip
    /\ history = new.history
    /\ pc = start
    /\ result = "None"
    /\ stdout = <<>>
    /\ clone = <<>>
    /\ idx = 1
    /\ trials = 0
    /\ first = <<>>
    /\ swapped = <<>>
    /\ NoDay7

Load(start) == LoadFrom(Programs, start)

Init == Load("part_1_run")

\* run: one turn of the loop that steps
RunStep ==
    /\ pc \in RunPcs
    /\ run_check(CPU) = "Continue"
    /\ LET next == step(CPU)
       IN  /\ Becomes(next)
           /\ \/ /\ ~next.panicked
                 /\ pc' = pc
              \/ /\ next.panicked
                 /\ pc' = "panic"
    /\ UNCHANGED <<overflow_checks, result, stdout, clone, idx, trials, original, first, swapped, day7>>

\* run: one turn of the loop that returns
RunReturn ==
    /\ pc \in RunPcs
    /\ run_check(CPU) # "Continue"
    /\ result' = run_check(CPU)
    /\ pc' = Return(pc)
    /\ UNCHANGED <<overflow_checks, instructions, accumulator, ip, history, stdout,
                   clone, idx, trials, original, first, swapped, day7>>

\* part_1 that resets the machine once it has printed.
part_1_resets ==
    /\ pc = "part_1_match"
    /\ \/ /\ result = InfiniteLoop
          /\ stdout' = Append(stdout, <<"loop", ip, accumulator>>)
       \/ /\ result = Terminate
          /\ stdout' = stdout
    /\ Becomes(reset(CPU))
    /\ pc' = "part_2_run"
    /\ UNCHANGED <<overflow_checks, result, clone, idx, trials, original, first, swapped, day7>>

\* part_1: the match on what run returned; main then calls part_2
part_1 ==
    /\ pc = "part_1_match"
    /\ \/ /\ result = InfiniteLoop
          /\ stdout' = Append(stdout, <<"loop", ip, accumulator>>)
       \/ /\ result = Terminate
          /\ stdout' = stdout
    /\ pc' = "part_2_run"
    /\ UNCHANGED <<overflow_checks, instructions, accumulator, ip, history, result,
                   clone, idx, trials, original, first, swapped, day7>>

\* The match on the first run with the last address of the history not cloned.
part_2_first_drops_last ==
    /\ pc = "part_2_match"
    /\ \/ /\ result = InfiniteLoop
          /\ clone' = SubSeq(history, 1, Len(history) - 1)
          /\ pc' = "for"
       \/ /\ result = Terminate
          /\ clone' = clone
          /\ pc' = "panic"
    /\ UNCHANGED <<overflow_checks, instructions, accumulator, ip, history, result,
                   stdout, idx, trials, original, first, swapped, day7>>

\* part_2: the match on the first run, and the clone of the history
part_2_first ==
    /\ pc = "part_2_match"
    /\ \/ /\ result = InfiniteLoop
          /\ clone' = history
          /\ pc' = "for"
       \/ /\ result = Terminate
          /\ clone' = clone
          /\ pc' = "panic"
    /\ UNCHANGED <<overflow_checks, instructions, accumulator, ip, history, result,
                   stdout, idx, trials, original, first, swapped, day7>>

\* The head of the for loop with only "jmp" taken as a candidate.
part_2_for_jmp_only ==
    /\ pc = "for"
    /\ \/ /\ idx > Len(clone)
          /\ pc' = "done"
          /\ UNCHANGED <<instructions, accumulator, ip, history, idx, trials>>
       \/ /\ idx <= Len(clone)
          /\ LET address == clone[idx]
                 fresh == reset(CPU)
                 old_instruction == get_instruction(fresh, address).op
             IN  \/ /\ old_instruction \in {"jmp"}
                    /\ Becomes(swap_instruction(fresh, address))
                    /\ trials' = trials + 1
                    /\ idx' = idx
                    /\ pc' = "trial_run"
                 \/ /\ old_instruction \notin {"jmp"}
                    /\ Becomes(fresh)
                    /\ trials' = trials
                    /\ idx' = idx + 1
                    /\ pc' = "for"
    /\ UNCHANGED <<overflow_checks, result, stdout, clone, original, first, swapped, day7>>

\* part_2: the head of one turn of the for loop, up to the call of run
part_2_for ==
    /\ pc = "for"
    /\ \/ /\ idx > Len(clone)
          /\ pc' = "done"
          /\ UNCHANGED <<instructions, accumulator, ip, history, idx, trials>>
       \/ /\ idx <= Len(clone)
          /\ LET address == clone[idx]
                 fresh == reset(CPU)
                 old_instruction == get_instruction(fresh, address).op
             IN  \/ /\ old_instruction \in {"nop", "jmp"}
                    /\ Becomes(swap_instruction(fresh, address))
                    /\ trials' = trials + 1
                    /\ idx' = idx
                    /\ pc' = "trial_run"
                 \/ /\ old_instruction \notin {"nop", "jmp"}
                    /\ Becomes(fresh)
                    /\ trials' = trials
                    /\ idx' = idx + 1
                    /\ pc' = "for"
    /\ UNCHANGED <<overflow_checks, result, stdout, clone, original, first, swapped, day7>>

\* The match on a trial run with no swap back after InfiniteLoop.
part_2_trial_no_revert ==
    /\ pc = "trial_match"
    /\ \/ /\ result = InfiniteLoop
          /\ idx' = idx + 1
          /\ stdout' = stdout
          /\ pc' = "for"
       \/ /\ result = Terminate
          /\ idx' = idx
          /\ stdout' = Append(stdout, <<"fix", accumulator>>)
          /\ pc' = "done"
    /\ UNCHANGED <<overflow_checks, instructions, accumulator, ip, history, result,
                   clone, trials, original, first, swapped, day7>>

\* part_2: the match on a trial run
part_2_trial ==
    /\ pc = "trial_match"
    /\ \/ /\ result = InfiniteLoop
          /\ Becomes(swap_instruction(CPU, clone[idx]))
          /\ idx' = idx + 1
          /\ stdout' = stdout
          /\ pc' = "for"
       \/ /\ result = Terminate
          /\ stdout' = Append(stdout, <<"fix", accumulator>>)
          /\ pc' = "done"
          /\ UNCHANGED <<instructions, accumulator, ip, history, idx>>
    /\ UNCHANGED <<overflow_checks, result, clone, trials, original, first, swapped, day7>>

Next == RunStep \/ RunReturn \/ part_1 \/ part_2_first \/ part_2_for \/ part_2_trial

Spec == Init /\ [][Next]_vars

\* The rerun test: run from the fresh machine, reset, run again on the same
\* program.  This is the step between the two runs.
test_rerun ==
    /\ pc = "test_match1"
    /\ first' = <<result, ip, accumulator, history>>
    /\ Becomes(reset(CPU))
    /\ pc' = "test_run2"
    /\ UNCHANGED <<overflow_checks, result, stdout, clone, idx, trials, original,
                   swapped, day7>>

InitRerun == Load("test_run1")

NextRerun == RunStep \/ RunReturn \/ test_rerun

SpecRerun == InitRerun /\ [][NextRerun]_vars

\* The swap test: swap_instruction called on one address of the loaded
\* program, up to MaxSwaps times.
MaxSwaps == 2

test_swap ==
    /\ pc = "swap_test"
    /\ Len(swapped) < MaxSwaps
    /\ \E address \in 0..(Len(instructions) - 1) :
           /\ IF swapped = <<>> THEN TRUE ELSE address = swapped[1]
           /\ Becomes(swap_instruction(CPU, address))
           /\ swapped' = Append(swapped, address)
    /\ UNCHANGED <<overflow_checks, pc, result, stdout, clone, idx, trials, original,
                   first, day7>>

InitSwap == Load("swap_test")

NextSwap == test_swap

SpecSwap == InitSwap /\ [][NextSwap]_vars

----
\* The day-7 bag count (src/day-7/src/vickz84259.rs).  A BagContents holds the
\* inner bags of one rule, in the order of the rule's text.

ShinyGold == "shiny gold"

BagNames == <<"dark red", "light blue", "muted yellow", "pale green", "dim olive">>

\* The keys of the Bags map.
Names == {ShinyGold} \cup {BagNames[i] : i \in 1..MaxBags}

\* BagContents::new: the inner bags, and their number
BagContents(inner) == [data |-> inner, length |-> Len(inner)]

\* impl ops::Index<usize> for BagContents
index(contents, i) == contents.data[i + 1]

\* The sequences of distinct members of S.
Distinct(S) ==
    {s \in UNION {[1..k -> S] : k \in 0..Cardinality(S)} :
        \A i, j \in 1..Len(s) : s[i] = s[j] => i = j}

\* The rules in which every bag of order holds only bags that come later in
\* order.
RECURSIVE RulesAlong(_)
RulesAlong(order) ==
    IF order = <<>> THEN {<<>>}
    ELSE LET later == {order[i] : i \in 2..Len(order)}
         IN  {(Head(order) :> BagContents(inner)) @@ rest :
                  inner \in Distinct(later), rest \in RulesAlong(Tail(order))}

\* Every acyclic set of rules over Names: one that some order of the bags
\* allows.
AcyclicBags ==
    UNION {RulesAlong(order) :
              order \in {o \in [1..Cardinality(Names) -> Names] :
                             \A i, j \in 1..Cardinality(Names) : o[i] = o[j] => i = j}}

RECURSIVE can_contain(_, _, _), any_from(_, _, _, _)

\* can_contain that answers true on every cache hit.
can_contain_hit_true(c, bs, bag) ==
    IF bag \in DOMAIN c THEN [cache |-> c, result |-> TRUE]
    ELSE LET r == any_from(c, bs, bag, 0)
         IN  [cache |-> (bag :> r.result) @@ r.cache, result |-> r.result]

\* can_contain: the closure of (0..contents.length).any(...), from index on.
\* any stops at the first inner bag that gives true.
any_from(c, bs, bag, i) ==
    LET contents == bs[bag]
    IN  IF i >= contents.length THEN [cache |-> c, result |-> FALSE]
        ELSE LET inner_bag == index(contents, i)
             IN  IF inner_bag = ShinyGold THEN [cache |-> c, result |-> TRUE]
                 ELSE LET r == can_contain(c, bs, inner_bag)
                      IN  IF r.result THEN r ELSE any_from(r.cache, bs, bag, i + 1)

\* can_contain: the cache it leaves and the result
can_contain(c, bs, bag) ==
    IF bag \in DOMAIN c THEN [cache |-> c, result |-> c[bag]]
    ELSE LET r == any_from(c, bs, bag, 0)
         IN  [cache |-> (bag :> r.result) @@ r.cache, result |-> r.result]

\* The day-8 program is not running.
NoDay8 ==
    /\ overflow_checks = FALSE
    /\ original = <<>>
    /\ instructions = <<>>
    /\ accumulator = 0
    /\ ip = 0
    /\ history = <<>>
    /\ pc = "bags"
    /\ result = "None"
    /\ stdout = <<>>
    /\ clone = <<>>
    /\ idx = 1
    /\ trials = 0
    /\ first = <<>>
    /\ swapped = <<>>

\* day 7 main: get_bags, then part_1 with its empty cache
InitBags ==
    /\ NoDay8
    /\ bags \in AcyclicBags
    /\ cache = <<>>
    /\ asked = {}
    /\ count = 0

\* day 7 part_1: the filter on one more entry of bags.iter(), which yields the
\* entries in no fixed order
bags_filter ==
    \E bag \in (DOMAIN bags) \ asked :
        LET r == can_contain(cache, bags, bag)
        IN  /\ cache' = r.cache
            /\ asked' = asked \cup {bag}
            /\ count' = IF r.result THEN count + 1 ELSE count
            /\ UNCHANGED <<bags, day8, first, swapped>>

NextBags == bags_filter

SpecBags == InitBags /\ [][NextBags]_vars

----
\* What the claims are stated with.

MatchPcs == {"part_1_match", "part_2_match", "trial_match", "test_match1", "test_match2"}

\* A run that began at the reset state has just returned.
ReturnedFromReset == pc \in {"part_1_match", "trial_match", "test_match1", "test_match2"}

NoDup(s) == \A i, j \in 1..Len(s) : s[i] = s[j] => i = j

\* The usize held as the residue r is the integer n (a wrapped value, r < 0,
\* is above 2^63 and is none of the integers a claim speaks of).
usize_is(r, n) == r >= 0 /\ r = n

\* The signed operand of a line.
Signed(arg) == IF arg.sign = "-" THEN 0 - arg.val ELSE arg.val

\* The signed sum of the operands of the acc instructions executed along path.
RECURSIVE SignedSum(_, _)
SignedSum(program, path) ==
    IF path = <<>> THEN 0
    ELSE (IF program[Head(path) + 1].op = "acc"
          THEN Signed(program[Head(path) + 1].arg) ELSE 0)
         + SignedSum(program, Tail(path))

\* The address the instruction at address a hands control to.
Target(program, a) ==
    IF program[a + 1].op = "jmp" THEN a + Signed(program[a + 1].arg) ELSE a + 1

\* path is an execution from address 0 that has arrived at address at.
IsPath(program, path, at) ==
    IF path = <<>> THEN at = 0
    ELSE /\ path[1] = 0
         /\ \A k \in 1..(Len(path) - 1) : path[k + 1] = Target(program, path[k])
         /\ at = Target(program, path[Len(path)])

FixPrinted == stdout # <<>> /\ stdout[Len(stdout)][1] = "fix"

\* The addresses (1-based) at which the program differs from the loaded one.
Changed == {a \in 1..Len(original) : instructions[a] # original[a]}

----
\* C1: when a run begun at the reset state returns InfiniteLoop, ip is the
\* address the execution has just arrived at for the second time, no address
\* of the history is there twice (nothing was executed a second time), and the
\* accumulator is the sum of the acc instructions executed once each.
C1_LoopDetected ==
    (ReturnedFromReset /\ result = InfiniteLoop) =>
        /\ contains(history, ip)
        /\ NoDup(history)
        /\ IsPath(instructions, history, ip)
        /\ accumulator = SignedSum(instructions, history)

C1_Witness ==
    /\ pc = "part_1_match"
    /\ result = InfiniteLoop
    /\ Len(history) >= 2
    /\ ip # 0
    /\ accumulator # 0

\* C2: when a run begun at the reset state returns Terminate with ip at the
\* length of the program, the accumulator is the signed sum of the operands
\* of the acc instructions executed along the path.
C2_SignedSum ==
    (ReturnedFromReset /\ result = Terminate /\ usize_is(ip, Len(instructions))) =>
        usize_is(accumulator, SignedSum(instructions, history))

\* C3: run returns Terminate only with ip at exactly the length of the program.
C3_TerminateOnlyAtLength ==
    (pc \in MatchPcs /\ result = Terminate) => usize_is(ip, Len(instructions))

\* C4: on the example program the first run returns InfiniteLoop with ip 1 (and
\* accumulator 5), and the search ends having flipped the jmp -4 at address 7
\* to nop -4, with Terminate and the accumulator 8 printed.
C4_Example ==
    original = Example =>
        /\ pc \in {"part_1_match", "part_2_match"} =>
               result = InfiniteLoop /\ usize_is(ip, 1) /\ usize_is(accumulator, 5)
        /\ pc \notin {"panic"}
        /\ pc = "done" =>
               /\ result = Terminate
               /\ stdout = << <<"loop", 1, 5>>, <<"fix", 8>> >>
               /\ usize_is(accumulator, 8)
               /\ instructions = [Example EXCEPT ![8] = Ins("nop", "-", 4)]

C4_Witness ==
    /\ original = Example
    /\ pc = "done"
    /\ FixPrinted
    /\ clone = <<0, 1, 2, 6, 7, 3, 4>>
    /\ clone[idx] = 7

\* C5: when the search ends with a fix printed, the program differs from the
\* loaded one at exactly the accepted candidate's address, by a jmp/nop flip
\* with the operand unchanged, and the printed accumulator is the one a run of
\* that program from a fresh machine terminates with.
C5_SuccessPath ==
    (pc = "done" /\ FixPrinted) =>
        LET a == clone[idx] + 1
            fresh == run([new EXCEPT !.instructions = instructions])
        IN  /\ Changed = {a}
            /\ {original[a].op, instructions[a].op} = {"jmp", "nop"}
            /\ instructions[a].arg = original[a].arg
            /\ fresh.result = Terminate
            /\ stdout[Len(stdout)] = <<"fix", fresh.cpu.accumulator>>

C5_Witness ==
    /\ pc = "done"
    /\ FixPrinted
    /\ idx >= 2
    /\ stdout[Len(stdout)][2] # 0
    /\ original # Example

\* C6: throughout the search at most one instruction differs from the loaded
\* program, and at the head of every turn of the for loop (a candidate is
\* about to be flipped) the program is the loaded one.
C6_OneMutation ==
    /\ Len(instructions) = Len(original)
    /\ Cardinality(Changed) <= 1
    /\ pc = "for" => instructions = original
    /\ pc \in {"trial_run", "trial_match"} => Changed = {clone[idx] + 1}

C6_Witness ==
    /\ pc = "for"
    /\ trials >= 1
    /\ idx <= Len(clone)
    /\ original[clone[idx] + 1].op \in {"jmp", "nop"}

\* C7: when the search ends with no fix printed, the program is the loaded
\* one at every address.
C7_NoFixRestores ==
    (pc = "done" /\ ~FixPrinted) => instructions = original

C7_Witness ==
    /\ pc = "done"
    /\ ~FixPrinted
    /\ trials >= 1

\* C8: the search prints a fix only when the trial run ended with ip at
\* exactly the length of the program.
C8_NoOutOfRangeFix ==
    (pc = "done" /\ FixPrinted) => usize_is(ip, Len(instructions))

\* C9: a run takes at most as many steps as the program has instructions
\* (every step adds one address to the history, all of them distinct), the
\* search starts at most as many trial runs as the cloned history has
\* entries, and main is never stuck before it ends.
Ended == pc \in {"done", "panic"}

C10_Rerun ==
    pc = "test_match2" =>
        /\ first = <<result, ip, accumulator, history>>
        /\ instructions = original

C10_Witness ==
    /\ pc = "test_match2"
    /\ result = InfiniteLoop
    /\ Len(history) >= 2
    /\ accumulator # 0

----
\* Programs with lines that do not parse.  get_cpu pushes every line of the
\* file as it is; a line is parsed when step comes to it.

\* "xyz +1", an unknown mnemonic; "acc *1", a sign that is neither + nor -;
\* "jmp +-1", an operand whose digits, "-1", are no usize.
BadLines ==
    { [op |-> "xyz", arg |-> [sign |-> "+", val |-> 1]],
      [op |-> "acc", arg |-> [sign |-> "*", val |-> 1]],
      [op |-> "jmp", arg |-> [sign |-> "+", val |-> 0 - 1]] }

AnyPrograms == UNION {[1..n -> Lines \cup BadLines] : n \in 0..MaxLen}

InitAny == LoadFrom(AnyPrograms, "part_1_run")

SpecAny == InitAny /\ [][Next]_vars

HasMalformed(program) == \E a \in 1..Len(program) : program[a] \in BadLines

\* C11: a program with a malformed line is rejected before anything is
\* executed: the accumulator, the instruction pointer and the history stay at
\* their initial values.
C11_RejectedBeforeExecution ==
    HasMalformed(original) => (accumulator = 0 /\ ip = 0 /\ history = <<>>)

----
\* The program with the opcode at address flipped, jmp to nop and nop to jmp,
\* the operand kept; an acc is left as it is.
Flipped(program, address) ==
    [program EXCEPT ![address + 1].op =
        IF @ = "jmp" THEN "nop" ELSE IF @ = "nop" THEN "jmp" ELSE @]

\* What run gives on program from a fresh machine.
FreshRun(program) == run([new EXCEPT !.instructions = program])

\* The flip at address is a fix of the loaded program.
Fixes(address) ==
    /\ original[address + 1].op \in {"jmp", "nop"}
    /\ FreshRun(Flipped(original, address)).result = Terminate

\* The positions of clone, up to n, that hold a jmp or a nop.
Candidates(n) == {j \in 1..n : j <= Len(clone) /\ original[clone[j] + 1].op \in {"jmp", "nop"}}

SearchPcs == {"for", "trial_run", "trial_match", "done"}

\* C12: the candidates are the addresses of the looping run's history, in its
\* order; every candidate before the current one failed; an acc is passed
\* with no trial run (and, at the head of the loop, no change of the program);
\* the accepted candidate is a fix, the first in that order, and nothing after
\* it is tried.
C12_HistoryOrder ==
    pc \in SearchPcs =>
        /\ clone = FreshRun(original).cpu.history
        /\ \A j \in 1..(idx - 1) : ~Fixes(clone[j])
        /\ pc = "for" => trials = Cardinality(Candidates(idx - 1)) /\ instructions = original
        /\ pc \in {"trial_run", "trial_match"} =>
               trials = Cardinality(Candidates(idx)) /\ idx \in Candidates(idx)
        /\ pc = "done" =>
               IF FixPrinted
               THEN Fixes(clone[idx]) /\ trials = Cardinality(Candidates(idx))
               ELSE idx = Len(clone) + 1 /\ trials = Cardinality(Candidates(Len(clone)))

C12_Witness ==
    /\ pc = "done"
    /\ FixPrinted
    /\ trials >= 2
    /\ trials < idx
    /\ \E j \in (idx + 1)..Len(clone) : clone[j] < clone[idx]

\* Some address of the whole program, visited or not, is a fix.
FixAnywhere == \E a \in 0..(Len(original) - 1) : Fixes(a)

\* An address the looping run never came to holds a jmp or a nop.
UnvisitedCandidate ==
    \E a \in 0..(Len(original) - 1) :
        ~contains(clone, a) /\ original[a + 1].op \in {"jmp", "nop"}

----
\* C14: a step appends the pre-step instruction pointer to the history and
\* executes the one instruction there: acc v adds v to the accumulator and
\* sets ip to ip + 1, jmp v sets ip to ip + v, nop sets ip to ip + 1.
C14_StepEffect ==
    [][ (RunStep /\ accumulator >= 0) =>
            LET line == instructions[ip + 1]
            IN  /\ history' = Append(history, ip)
                /\ line.op = "acc" =>
                       /\ usize_is(accumulator', accumulator + Signed(line.arg))
                       /\ usize_is(ip', ip + 1)
                /\ line.op = "jmp" => ip' = ip + Signed(line.arg)
                /\ line.op = "nop" => usize_is(ip', ip + 1)
      ]_vars

\* C15: a step of a jmp or a nop leaves the accumulator as it is; no step and
\* no return of run changes the program; whatever changes the program is the
\* search (the head of the for loop or the match on a trial), it changes the
\* opcode of one address between jmp and nop, and no operand ever changes.
C15_Frame ==
    [][ /\ (RunStep /\ instructions[ip + 1].op \in {"jmp", "nop"}) =>
               accumulator' = accumulator
        /\ pc \in RunPcs => instructions' = instructions
        /\ Len(instructions') = Len(instructions)
        /\ \A a \in 1..Len(instructions) : instructions'[a].arg = instructions[a].arg
        /\ instructions' # instructions =>
               /\ pc \in {"for", "trial_match"}
               /\ \E a \in 1..Len(instructions) :
                      /\ {instructions[a].op, instructions'[a].op} = {"jmp", "nop"}
                      /\ \A b \in 1..Len(instructions) :
                             b # a => instructions'[b] = instructions[b]
      ]_vars

C15_Witness ==
    /\ pc = "trial_run"
    /\ Changed # {}
    /\ Len(history) >= 2
    /\ accumulator # 0
    /\ instructions[history[Len(history)] + 1].op \in {"jmp", "nop"}

\* C16: a trial run starts at ip 0 with accumulator 0 and an empty history:
\* while it runs, the history is an execution from address 0 and the
\* accumulator the sum along it, and what it returns is what run gives on the
\* mutated program from a fresh machine, whatever the runs before it left.
C16_TrialFromReset ==
    /\ pc = "trial_run" =>
           /\ IsPath(instructions, history, ip)
           /\ accumulator = SignedSum(instructions, history)
    /\ pc = "trial_match" =>
           LET f == FreshRun(instructions)
           IN  <<result, ip, accumulator, history>> =
                   <<f.result, f.cpu.ip, f.cpu.accumulator, f.cpu.history>>

C16_Witness ==
    /\ pc = "trial_match"
    /\ result = Terminate
    /\ stdout # <<>>
    /\ stdout[1][3] # 0
    /\ original # Example

\* C17: part_2's first call of run, on the machine part_1 left and with no
\* reset, returns at once what part_1's run returned and leaves ip,
\* accumulator and history as that run left them; the history part_2 clones is
\* the history of the first run.
C17_RerunNoReset ==
    LET f == FreshRun(original)
    IN  /\ pc \in {"part_2_run", "part_2_match"} =>
               /\ run_check(CPU) = result
               /\ <<result, ip, accumulator, history>> =
                      <<f.result, f.cpu.ip, f.cpu.accumulator, f.cpu.history>>
        /\ (pc = "part_2_match" /\ result = InfiniteLoop) =>
               stdout = << <<"loop", ip, accumulator>> >>
        /\ pc = "for" => clone = f.cpu.history

C17_Witness ==
    /\ pc = "part_2_match"
    /\ result = InfiniteLoop
    /\ Len(history) >= 2
    /\ accumulator # 0

----
\* C19: swap_instruction called twice on one address gives the program back;
\* called once it flips a jmp or a nop, keeps its operand and leaves an acc
\* as it is; every other address, and the rest of the machine, is unchanged.
C19_SwapInvolution ==
    (pc = "swap_test" /\ swapped # <<>>) =>
        /\ Len(swapped) % 2 = 0 => instructions = original
        /\ Len(swapped) % 2 = 1 => instructions = Flipped(original, swapped[1])
        /\ <<accumulator, ip, history>> = <<0, 0, <<>> >>

C19_Witness ==
    /\ pc = "swap_test"
    /\ Len(swapped) = 2
    /\ Len(original) >= 2
    /\ original[swapped[1] + 1].op = "jmp"
    /\ original[swapped[1] + 1].arg.val # 0

----
\* The bags that hold a shiny gold bag through one or more rules: the least
\* set with every bag that has, among its inner bags, shiny gold or a member.
RECURSIVE Holders(_, _)
Holders(rules, S) ==
    LET T == S \cup {b \in DOMAIN rules :
                        \E i \in 1..Len(rules[b].data) :
                            rules[b].data[i] = ShinyGold \/ rules[b].data[i] \in S}
    IN  IF T = S THEN S ELSE Holders(rules, T)

\* C18: in whatever order the bags have been asked, every answer of
\* can_contain was true exactly for a holder of shiny gold (count is the
\* number of holders among the bags asked, after every single answer), and
\* every entry of the cache is that value for its bag.
C18_Memo ==
    pc = "bags" =>
        LET holders == Holders(bags, {})
        IN  /\ count = Cardinality(asked \cap holders)
            /\ \A b \in DOMAIN cache : b \in DOMAIN bags /\ (cache[b] <=> b \in holders)
            /\ asked \subseteq DOMAIN cache

C18_Witness ==
    /\ pc = "bags"
    /\ asked = DOMAIN bags
    /\ count >= 2
    /\ count < Cardinality(asked)
    /\ \E b \in DOMAIN bags : bags[b].length >= 2

====
